---- MODULE Spec2Model ----
(***************************************************************************)
(* Model of the load generator (loadgen): the startup migration phase of   *)
(* main.py (run_migrations over the shipped migrations 0001..0003) and the *)
(* CRUD loop of main.py driving one LoadGenerator per database              *)
(* (generator.py).                                                         *)
(*                                                                         *)
(* The migration engine itself (lock, ledger, dependency resolution,       *)
(* transactional apply) is the yoyo library, which main.py only calls; its *)
(* behaviour is modelled from section 4.1 and 4.2 of the specification.    *)
(***************************************************************************)
EXTENDS Integers, Sequences, FiniteSets, TLC

\* Number of process replicas that may run main() against the same databases.
NumReplicas == 2

Replicas == 1..NumReplicas

\* Connections one generator may establish before every further pyodbc.connect
\* is made to fail.
MaxConnects == 2

\* Rows a table of the modelled database can take: at the bound an INSERT fails
\* with a driver error.
MaxCustomers == 1

MaxOrders == 1

MaxItems == 3

\* main.py:131  DATABASES default "tenant_db_alpha,tenant_db_beta"
Databases == <<"tenant_db_alpha", "tenant_db_beta">>

DatabaseSet == {Databases[i] : i \in 1..Len(Databases)}

\* The files of src/loadgen/migrations
Migrations == {"0001_initial_schema", "0002_row_count_view", "0003_schema_change_log"}

\* The numeric identifier prefix of a migration (the resolver's tie-break key).
IdPrefix(m) ==
    CASE m = "0001_initial_schema" -> 1
      [] m = "0002_row_count_view" -> 2
      [] m = "0003_schema_change_log" -> 3

\* Number of forward steps of each migration (len(steps) of its file).
NumSteps(m) ==
    CASE m = "0001_initial_schema" -> 5
      [] m = "0002_row_count_view" -> 1
      [] m = "0003_schema_change_log" -> 2

\* The forward steps of a migration, each <<migration, index>>.
StepsOf(m) == {<<m, i>> : i \in 1..NumSteps(m)}

Steps == UNION {StepsOf(m) : m \in Migrations}

\* __depends__ of the three shipped migration files.
ShippedDepends ==
    [m \in Migrations |->
        CASE m = "0001_initial_schema" -> {}
          [] m = "0002_row_count_view" -> {"0001_initial_schema"}
          [] m = "0003_schema_change_log" -> {"0002_row_count_view"}]

----------------------------------------------------------------------------
(* Migration Graph Resolver (specification 4.1).                           *)

\* Mutant: the resolver ignores the dependency sets and orders by identifier.
Ready_IgnoreDepends(dep, remaining) == remaining

\* Migrations of `remaining` all of whose dependencies are already placed.
Ready(dep, remaining) == {m \in remaining : dep[m] \cap remaining = {}}

\* Tie-break: the smallest identifier prefix.
SmallestId(S) == CHOOSE m \in S : \A n \in S : IdPrefix(m) <= IdPrefix(n)

RECURSIVE TopologicalSort(_, _, _)
TopologicalSort(dep, remaining, acc) ==
    IF remaining = {} THEN [ok |-> TRUE, order |-> acc]
    ELSE IF Ready(dep, remaining) = {} THEN [ok |-> FALSE, order |-> acc]
    ELSE LET m == SmallestId(Ready(dep, remaining))
         IN  TopologicalSort(dep, remaining \ {m}, Append(acc, m))

\* The resolved order of the full set, or ok = FALSE for a cycle.
Resolve(dep) == TopologicalSort(dep, Migrations, <<>>)

Range(s) == {s[i] : i \in 1..Len(s)}

\* pending = resolved order minus already-applied, in resolved order (4.2 step 3).
ToApply(dep, applied) ==
    LET NotApplied(m) == m \notin applied
    IN  SelectSeq(Resolve(dep).order, NotApplied)

----------------------------------------------------------------------------
VARIABLES
    depends,    \* the __depends__ relation of the migration set read by read_migrations
    ledger,     \* per database: the ledger entries (migration ids), in commit order
    schema,     \* per database: the forward steps whose effect is committed
    lock,       \* per database: the replica holding the migration lock, 0 if free
    stepRuns,   \* per database and forward step: how many times it was executed
    pc,         \* per replica: position in main()
    dbi,        \* per replica: index in Databases of run_migrations' loop variable db
    pending,    \* per replica: the migrations of to_apply() not yet applied
    stepi,      \* per replica: index of the next forward step of Head(pending)
    txn,        \* per replica: steps executed in the open (uncommitted) transaction
    raisedIn,   \* per replica: where the exception run_migrations re-raised came from
    migrated,   \* per replica: the databases whose run_migrations iteration completed
    logged,     \* per replica: the log records emitted by its last step
    gi,         \* per replica: index in generators of the CRUD loop's variable gen
    conn,       \* per replica and database: LoadGenerator._connection, 0 for None
    connects,   \* per replica and database: connections established so far
    curOp,      \* per replica: the operation selected by execute_random_operation
    todo,       \* per replica: the calls the running operation has still to make
    closeRaised, \* per replica and database: whether close() raised in the last reconnect()
    customers,  \* dbo.Customers of the first database: the CustomerId of each row
    orders,     \* dbo.Orders of the first database: [id, customer, status] of each row
    items,      \* dbo.OrderItems of the first database: [id, order] of each row
    identity,   \* per table of the first database: the last IDENTITY value issued
    row,        \* per replica: the ids and status the running operation holds
    drawn       \* per replica: the value of choice = random.randint(1, total_weight)

migVars == <<depends, ledger, schema, lock, stepRuns, dbi, pending, stepi, txn,
             raisedIn, migrated>>

loadVars == <<gi, conn, connects, curOp, todo, closeRaised>>

dataVars == <<customers, orders, items, identity, row, drawn>>

vars == <<depends, ledger, schema, lock, stepRuns, pc, dbi, pending, stepi, txn,
          raisedIn, migrated, logged, gi, conn, connects, curOp, todo, closeRaised,
          customers, orders, items, identity, row, drawn>>

NoRaise == [database |-> "", migration |-> "", step |-> 0]

Event(e, d, op) == [event |-> e, database |-> d, operation |-> op]

Tables == {"Customers", "Orders", "OrderItems"}

\* The local variables of an operation body before any SELECT or INSERT.
NoRow == [customer_id |-> 0, order_id |-> 0, status |-> "", item_id |-> 0]

CurDb(r) == Databases[dbi[r]]

\* The positions of run_migrations between entering and leaving `with backend.lock()`.
InLock == {"to_apply", "apply", "mark", "unlock_ok", "unlock_err"}

----------------------------------------------------------------------------
(* Initial states.                                                         *)

\* The ledgers a database holds when the process starts: none on a fresh
\* database, the whole resolved order on one an earlier run has migrated.
InitialLedgers(dep) ==
    LET res == Resolve(dep)
    IN  IF res.ok THEN {<<>>, res.order} ELSE {<<>>}

InitState(dep, active, ledgers) ==
    /\ depends = dep
    /\ ledger \in [DatabaseSet -> ledgers]
    /\ schema = [d \in DatabaseSet |-> UNION {StepsOf(m) : m \in Range(ledger[d])}]
    /\ lock = [d \in DatabaseSet |-> 0]
    /\ stepRuns = [d \in DatabaseSet |-> [s \in Steps |-> 0]]
    /\ pc = [r \in Replicas |-> IF r \in active THEN "begin" ELSE "absent"]
    /\ dbi = [r \in Replicas |-> 1]
    /\ pending = [r \in Replicas |-> <<>>]
    /\ stepi = [r \in Replicas |-> 1]
    /\ txn = [r \in Replicas |-> {}]
    /\ raisedIn = [r \in Replicas |-> NoRaise]
    /\ migrated = [r \in Replicas |-> {}]
    /\ logged = [r \in Replicas |-> <<>>]
    /\ gi = [r \in Replicas |-> 1]
    /\ conn = [r \in Replicas |-> [d \in DatabaseSet |-> 0]]
    /\ connects = [r \in Replicas |-> [d \in DatabaseSet |-> 0]]
    /\ curOp = [r \in Replicas |-> ""]
    /\ todo = [r \in Replicas |-> <<>>]
    /\ closeRaised = [r \in Replicas |-> [d \in DatabaseSet |-> FALSE]]
    /\ customers = {}
    /\ orders = {}
    /\ items = {}
    /\ identity = [t \in Tables |-> 0]
    /\ row = [r \in Replicas |-> NoRow]
    /\ drawn = [r \in Replicas |-> 0]

----------------------------------------------------------------------------
(* run_migrations (main.py:69-83), one replica r, database CurDb(r).       *)

\* main.py:72-75: log running_migrations, get_backend (connects; may raise),
\* read_migrations.
BeginDatabase(r) ==
    /\ pc[r] = "begin"
    /\ \/ /\ pc' = [pc EXCEPT ![r] = "lock"]
          /\ UNCHANGED raisedIn
       \/ /\ pc' = [pc EXCEPT ![r] = "except"]
          /\ raisedIn' = [raisedIn EXCEPT ![r] =
                [database |-> CurDb(r), migration |-> "", step |-> 0]]
    /\ logged' = [logged EXCEPT ![r] = <<Event("running_migrations", CurDb(r), "")>>]
    /\ UNCHANGED <<depends, ledger, schema, lock, stepRuns, dbi, pending, stepi, txn, migrated, loadVars, dataVars>>

\* The lock of database d is free (yoyo's lock row is absent).
LockFree(d) == lock[d] = 0

\* Mutant: the body runs without `with backend.lock()`.
AcquireLock_NoLock(r) ==
    /\ pc[r] = "lock"
    /\ pc' = [pc EXCEPT ![r] = "to_apply"]
    /\ logged' = [logged EXCEPT ![r] = <<>>]
    /\ UNCHANGED <<depends, ledger, schema, lock, stepRuns, dbi, pending, stepi, txn,
                   raisedIn, migrated, loadVars, dataVars>>

\* main.py:77: entering `with backend.lock()`; blocks while another holds it.
AcquireLock(r) ==
    /\ pc[r] = "lock"
    /\ LockFree(CurDb(r))
    /\ lock' = [lock EXCEPT ![CurDb(r)] = r]
    /\ pc' = [pc EXCEPT ![r] = "to_apply"]
    /\ logged' = [logged EXCEPT ![r] = <<>>]
    /\ UNCHANGED <<depends, ledger, schema, stepRuns, dbi, pending, stepi, txn, raisedIn, migrated, loadVars, dataVars>>

\* Mutant: apply_migrations is handed all the migrations read, not
\* to_apply(migrations).
ComputeToApply_All(r) ==
    /\ pc[r] = "to_apply"
    /\ IF Resolve(depends).ok
       THEN /\ pending' = [pending EXCEPT ![r] = Resolve(depends).order]
            /\ pc' = [pc EXCEPT ![r] = "apply"]
            /\ UNCHANGED raisedIn
       ELSE /\ pc' = [pc EXCEPT ![r] = "unlock_err"]
            /\ raisedIn' = [raisedIn EXCEPT ![r] =
                  [database |-> CurDb(r), migration |-> "", step |-> 0]]
            /\ UNCHANGED pending
    /\ stepi' = [stepi EXCEPT ![r] = 1]
    /\ logged' = [logged EXCEPT ![r] = <<>>]
    /\ UNCHANGED <<depends, ledger, schema, lock, stepRuns, dbi, txn, migrated, loadVars, dataVars>>

\* main.py:78: backend.to_apply(migrations), evaluated inside the lock. A cyclic
\* dependency relation raises here, before any statement.
ComputeToApply(r) ==
    /\ pc[r] = "to_apply"
    /\ IF Resolve(depends).ok
       THEN LET toApply == ToApply(depends, Range(ledger[CurDb(r)]))
            IN  /\ pending' = [pending EXCEPT ![r] = toApply]
                /\ pc' = [pc EXCEPT ![r] = IF toApply = <<>> THEN "unlock_ok" ELSE "apply"]
                /\ UNCHANGED raisedIn
       ELSE /\ pc' = [pc EXCEPT ![r] = "unlock_err"]
            /\ raisedIn' = [raisedIn EXCEPT ![r] =
                  [database |-> CurDb(r), migration |-> "", step |-> 0]]
            /\ UNCHANGED pending
    /\ stepi' = [stepi EXCEPT ![r] = 1]
    /\ logged' = [logged EXCEPT ![r] = <<>>]
    /\ UNCHANGED <<depends, ledger, schema, lock, stepRuns, dbi, txn, migrated, loadVars, dataVars>>

\* Mutant: each forward step commits on its own (no enclosing transaction), so
\* a failure leaves the earlier steps of the migration in the schema.
ExecuteStep_Autocommit(r) ==
    /\ pc[r] = "apply"
    /\ LET m == Head(pending[r])
           s == <<m, stepi[r]>>
       IN  \/ /\ schema' = [schema EXCEPT ![CurDb(r)] = @ \cup {s}]
              /\ stepRuns' = [stepRuns EXCEPT ![CurDb(r)][s] = @ + 1]
              /\ stepi' = [stepi EXCEPT ![r] = @ + 1]
              /\ pc' = [pc EXCEPT ![r] = IF stepi[r] = NumSteps(m) THEN "mark" ELSE "apply"]
              /\ UNCHANGED raisedIn
           \/ /\ pc' = [pc EXCEPT ![r] = "unlock_err"]
              /\ raisedIn' = [raisedIn EXCEPT ![r] =
                    [database |-> CurDb(r), migration |-> m, step |-> stepi[r]]]
              /\ UNCHANGED <<schema, stepRuns, stepi>>
    /\ logged' = [logged EXCEPT ![r] = <<>>]
    /\ UNCHANGED <<depends, ledger, lock, dbi, pending, txn, migrated, loadVars, dataVars>>

\* main.py:78: backend.apply_migrations, one forward step of Head(pending[r])
\* inside the migration's transaction. The step either executes, or fails: the
\* transaction is rolled back and the exception leaves the lock's with-block.
ExecuteStep(r) ==
    /\ pc[r] = "apply"
    /\ LET m == Head(pending[r])
           s == <<m, stepi[r]>>
       IN  \/ /\ txn' = [txn EXCEPT ![r] = @ \cup {s}]
              /\ stepRuns' = [stepRuns EXCEPT ![CurDb(r)][s] = @ + 1]
              /\ stepi' = [stepi EXCEPT ![r] = @ + 1]
              /\ pc' = [pc EXCEPT ![r] = IF stepi[r] = NumSteps(m) THEN "mark" ELSE "apply"]
              /\ UNCHANGED raisedIn
           \/ /\ txn' = [txn EXCEPT ![r] = {}]
              /\ pc' = [pc EXCEPT ![r] = "unlock_err"]
              /\ raisedIn' = [raisedIn EXCEPT ![r] =
                    [database |-> CurDb(r), migration |-> m, step |-> stepi[r]]]
              /\ UNCHANGED <<stepRuns, stepi>>
    /\ logged' = [logged EXCEPT ![r] = <<>>]
    /\ UNCHANGED <<depends, ledger, schema, lock, dbi, pending, migrated, loadVars, dataVars>>

\* main.py:78: the end of one migration in apply_migrations: the ledger entry is
\* written and the transaction commits, making the steps and the entry visible
\* together; or the write fails and the transaction is rolled back.
MarkApplied(r) ==
    /\ pc[r] = "mark"
    /\ LET m == Head(pending[r])
           d == CurDb(r)
       IN  \/ /\ schema' = [schema EXCEPT ![d] = @ \cup txn[r]]
              /\ ledger' = [ledger EXCEPT ![d] = Append(@, m)]
              /\ pending' = [pending EXCEPT ![r] = Tail(@)]
              /\ stepi' = [stepi EXCEPT ![r] = 1]
              /\ pc' = [pc EXCEPT ![r] =
                    IF Tail(pending[r]) = <<>> THEN "unlock_ok" ELSE "apply"]
              /\ UNCHANGED raisedIn
           \/ /\ pc' = [pc EXCEPT ![r] = "unlock_err"]
              /\ raisedIn' = [raisedIn EXCEPT ![r] =
                    [database |-> d, migration |-> m, step |-> stepi[r]]]
              /\ UNCHANGED <<schema, ledger, pending, stepi>>
    /\ txn' = [txn EXCEPT ![r] = {}]
    /\ logged' = [logged EXCEPT ![r] = <<>>]
    /\ UNCHANGED <<depends, lock, stepRuns, dbi, migrated, loadVars, dataVars>>

\* Mutant: the lock is released at the end of the block only, not when an
\* exception leaves it.
ReleaseLock_OnSuccessOnly(r) ==
    /\ pc[r] \in {"unlock_ok", "unlock_err"}
    /\ lock' = [lock EXCEPT ![CurDb(r)] = IF @ = r /\ pc[r] = "unlock_ok" THEN 0 ELSE @]
    /\ pc' = [pc EXCEPT ![r] = IF pc[r] = "unlock_ok" THEN "complete" ELSE "except"]
    /\ logged' = [logged EXCEPT ![r] = <<>>]
    /\ UNCHANGED <<depends, ledger, schema, stepRuns, dbi, pending, stepi, txn,
                   raisedIn, migrated, loadVars, dataVars>>

\* main.py:77-78: leaving `with backend.lock()`, normally or by an exception.
ReleaseLock(r) ==
    /\ pc[r] \in {"unlock_ok", "unlock_err"}
    /\ lock' = [lock EXCEPT ![CurDb(r)] = IF @ = r THEN 0 ELSE @]
    /\ pc' = [pc EXCEPT ![r] = IF pc[r] = "unlock_ok" THEN "complete" ELSE "except"]
    /\ logged' = [logged EXCEPT ![r] = <<>>]
    /\ UNCHANGED <<depends, ledger, schema, stepRuns, dbi, pending, stepi, txn, raisedIn, migrated, loadVars, dataVars>>

\* Mutant: run_migrations returns after its first database.
MigrationsComplete_ReturnEarly(r) ==
    /\ pc[r] = "complete"
    /\ logged' = [logged EXCEPT ![r] = <<Event("migrations_complete", CurDb(r), "")>>]
    /\ migrated' = [migrated EXCEPT ![r] = @ \cup {CurDb(r)}]
    /\ pc' = [pc EXCEPT ![r] = "generators"]
    /\ UNCHANGED <<depends, ledger, schema, lock, stepRuns, dbi, pending, stepi, txn,
                   raisedIn, loadVars, dataVars>>

\* main.py:80 and the for loop of line 71: log migrations_complete, go on with the
\* next database, or return to main after the last one.
MigrationsComplete(r) ==
    /\ pc[r] = "complete"
    /\ logged' = [logged EXCEPT ![r] = <<Event("migrations_complete", CurDb(r), "")>>]
    /\ migrated' = [migrated EXCEPT ![r] = @ \cup {CurDb(r)}]
    /\ IF dbi[r] < Len(Databases)
       THEN /\ dbi' = [dbi EXCEPT ![r] = @ + 1]
            /\ pc' = [pc EXCEPT ![r] = "begin"]
       ELSE /\ pc' = [pc EXCEPT ![r] = "generators"]
            /\ UNCHANGED dbi
    /\ UNCHANGED <<depends, ledger, schema, lock, stepRuns, pending, stepi, txn, raisedIn, loadVars, dataVars>>

\* Mutant: the except clause logs and does not re-raise, so the for loop goes on.
MigrationFailed_Swallow(r) ==
    /\ pc[r] = "except"
    /\ logged' = [logged EXCEPT ![r] = <<Event("migration_failed", CurDb(r), "")>>]
    /\ IF dbi[r] < Len(Databases)
       THEN /\ dbi' = [dbi EXCEPT ![r] = @ + 1]
            /\ pc' = [pc EXCEPT ![r] = "begin"]
       ELSE /\ pc' = [pc EXCEPT ![r] = "generators"]
            /\ UNCHANGED dbi
    /\ UNCHANGED <<depends, ledger, schema, lock, stepRuns, pending, stepi, txn,
                   raisedIn, migrated, loadVars, dataVars>>

\* main.py:81-83: log migration_failed and re-raise; main (line 144) does not
\* catch it, so the process ends there.
MigrationFailed(r) ==
    /\ pc[r] = "except"
    /\ logged' = [logged EXCEPT ![r] = <<Event("migration_failed", CurDb(r), "")>>]
    /\ pc' = [pc EXCEPT ![r] = "raised"]
    /\ UNCHANGED <<depends, ledger, schema, lock, stepRuns, dbi, pending, stepi, txn, raisedIn, migrated, loadVars, dataVars>>

RunMigrations(r) ==
    \/ BeginDatabase(r)
    \/ AcquireLock(r)
    \/ ComputeToApply(r)
    \/ ExecuteStep(r)
    \/ MarkApplied(r)
    \/ ReleaseLock(r)
    \/ MigrationsComplete(r)
    \/ MigrationFailed(r)

----------------------------------------------------------------------------
(* LoadGenerator (generator.py) and the CRUD loop of main (main.py:146-169). *)

\* generator.py:53-59: the operations and their weights, in list order.
Operations ==
    << <<"insert_customer_with_order", 40>>,
       <<"update_order_status", 30>>,
       <<"insert_order_for_existing", 15>>,
       <<"update_customer", 10>>,
       <<"delete_order_item", 5>> >>

RECURSIVE SumWeights(_)
SumWeights(ops) == IF ops = <<>> THEN 0 ELSE Head(ops)[2] + SumWeights(Tail(ops))

\* generator.py:61
TotalWeight == SumWeights(Operations)

\* Mutant: the comparison with the cumulative weight is strict.
RECURSIVE SelectFrom_Strict(_, _, _)
SelectFrom_Strict(ops, cumulative, choice) ==
    IF ops = <<>> THEN ""
    ELSE IF choice < cumulative + Head(ops)[2] THEN Head(ops)[1]
    ELSE SelectFrom_Strict(Tail(ops), cumulative + Head(ops)[2], choice)

\* generator.py:64-67: the first operation whose cumulative weight reaches choice.
RECURSIVE SelectFrom(_, _, _)
SelectFrom(ops, cumulative, choice) ==
    IF ops = <<>> THEN ""
    ELSE IF choice <= cumulative + Head(ops)[2] THEN Head(ops)[1]
    ELSE SelectFrom(Tail(ops), cumulative + Head(ops)[2], choice)

SelectOperation(choice) == SelectFrom(Operations, 0, choice)

\* n INSERTs into dbo.OrderItems.
ItemInserts(n) == [i \in 1..n |-> "insert_item"]

\* generator.py:80-134: the calls of insert_customer_with_order with n items,
\* ending with its log record.
CustomerWithOrderCalls(n) ==
    <<"cursor", "insert_customer", "insert_order">> \o ItemInserts(n)
        \o <<"inserted_customer_with_order">>

\* The calls an operation makes if every SELECT finds a row, for every value of
\* its random item count; the last one is the record it logs.
OperationCalls(op) ==
    CASE op = "insert_customer_with_order" ->          \* generator.py:80-134
            {CustomerWithOrderCalls(n) : n \in 1..3}
      [] op = "insert_order_for_existing" ->           \* generator.py:136-183
            {<<"cursor", "select_customer", "insert_order">> \o ItemInserts(n)
                \o <<"inserted_order_for_existing">> : n \in 1..2}
      [] op = "update_order_status" ->                 \* generator.py:185-223
            {<<"cursor", "select_order", "update_order", "updated_order_status">>}
      [] op = "update_customer" ->                     \* generator.py:225-250
            {<<"cursor", "select_customer", "update_customer", "updated_customer">>}
      [] op = "delete_order_item" ->                   \* generator.py:252-279
            {<<"cursor", "select_item", "delete_item", "deleted_order_item">>}

\* The SELECTs that look for an eligible row.
Selects == {"select_customer", "select_order", "select_item"}

\* The records the operations log on completion.
OutcomeEvents ==
    {"inserted_customer_with_order", "inserted_order_for_existing",
     "updated_order_status", "updated_customer", "deleted_order_item"}

\* Mutant: insert_order_for_existing returns too when it finds no customer.
NoRowCalls_AlwaysReturn(op) == {<<>>}

\* The calls left when a SELECT of operation op returned no row: the fallback of
\* insert_order_for_existing (generator.py:143-145), a plain return otherwise.
NoRowCalls(op) ==
    IF op = "insert_order_for_existing"
    THEN {CustomerWithOrderCalls(n) : n \in 1..3}
    ELSE {<<>>}

\* The database of the generator the CRUD loop is at.
GenDb(r) == Databases[gi[r]]

\* The positions of main inside the CRUD loop's try block.
InLoop == {"loop", "op", "caught", "sleep"}

\* main.py:146-158: one LoadGenerator per database, none connected yet.
CreateGenerators(r) ==
    /\ pc[r] = "generators"
    /\ pc' = [pc EXCEPT ![r] = "loop"]
    /\ gi' = [gi EXCEPT ![r] = 1]
    /\ conn' = [conn EXCEPT ![r] = [d \in DatabaseSet |-> 0]]
    /\ logged' = [logged EXCEPT ![r] = <<Event("starting_crud_loop", "", "")>>]
    /\ UNCHANGED <<dataVars, migVars, connects, curOp, todo, closeRaised>>

\* generator.py:50-67, called at main.py:162: draw choice and select the
\* operation; its body starts.
ExecuteRandomOperation(r) ==
    /\ pc[r] = "loop"
    /\ \E choice \in 1..TotalWeight :
          /\ curOp' = [curOp EXCEPT ![r] = SelectOperation(choice)]
          /\ \E calls \in OperationCalls(SelectOperation(choice)) :
                todo' = [todo EXCEPT ![r] = calls]
    /\ pc' = [pc EXCEPT ![r] = "op"]
    /\ logged' = [logged EXCEPT ![r] = <<>>]
    /\ UNCHANGED <<dataVars, migVars, gi, conn, connects, closeRaised>>

\* generator.py:29-35, the connection property: connect only when no handle is
\* held. The result is the handle, 0 when pyodbc.connect raised.
Connection(r, d, ok) ==
    IF conn[r][d] = 0
    THEN IF ok THEN connects[r][d] + 1 ELSE 0
    ELSE conn[r][d]

\* self.connection.cursor(), the first call of every operation body: the property
\* may connect (logging connecting_to_database), and connecting or cursor() may
\* raise pyodbc.Error, which execute_random_operation catches.
Cursor(r) ==
    /\ pc[r] = "op"
    /\ todo[r] # <<>>
    /\ Head(todo[r]) = "cursor"
    /\ LET d == GenDb(r)
       IN  \E ok \in BOOLEAN, cursorOk \in BOOLEAN :
             LET h == Connection(r, d, ok)
             IN  /\ (conn[r][d] = 0 /\ ok) => connects[r][d] < MaxConnects
                 /\ conn' = [conn EXCEPT ![r][d] = h]
                 /\ connects' = [connects EXCEPT ![r][d] = IF h # conn[r][d] THEN h ELSE @]
                 /\ logged' = [logged EXCEPT ![r] =
                        IF conn[r][d] = 0
                        THEN <<Event("connecting_to_database", d, "")>> ELSE <<>>]
                 /\ IF h # 0 /\ cursorOk
                    THEN /\ pc' = pc
                         /\ todo' = [todo EXCEPT ![r] = Tail(@)]
                    ELSE /\ pc' = [pc EXCEPT ![r] = "caught"]
                         /\ todo' = todo
    /\ UNCHANGED <<dataVars, migVars, gi, curOp, closeRaised>>

\* Mutant: a SELECT that finds no row is handled as a failure: logged as
\* operation_failed and the connection dropped.
ExecuteStatement_SkipAsFailure(r) ==
    /\ pc[r] = "op"
    /\ todo[r] # <<>>
    /\ Head(todo[r]) \notin {"cursor"} \cup OutcomeEvents
    /\ \/ /\ todo' = [todo EXCEPT ![r] = Tail(@)]
          /\ logged' = [logged EXCEPT ![r] = <<>>]
          /\ UNCHANGED <<pc, curOp, conn>>
       \/ /\ Head(todo[r]) \in Selects
          /\ \E calls \in NoRowCalls(curOp[r]) :
                /\ todo' = [todo EXCEPT ![r] = calls]
                /\ pc' = [pc EXCEPT ![r] = IF calls = <<>> THEN "sleep" ELSE "op"]
                /\ curOp' = [curOp EXCEPT ![r] = IF calls = <<>> THEN "" ELSE @]
                /\ logged' = [logged EXCEPT ![r] =
                        IF calls = <<>>
                        THEN <<Event("operation_failed", GenDb(r), curOp[r])>>
                        ELSE <<>>]
                /\ conn' = [conn EXCEPT ![r][GenDb(r)] = IF calls = <<>> THEN 0 ELSE @]
       \/ /\ pc' = [pc EXCEPT ![r] = "caught"]
          /\ logged' = [logged EXCEPT ![r] = <<>>]
          /\ UNCHANGED <<todo, curOp, conn>>
       \/ /\ pc' = [pc EXCEPT ![r] = "fatal"]
          /\ logged' = [logged EXCEPT ![r] = <<>>]
          /\ UNCHANGED <<todo, curOp, conn>>
    /\ UNCHANGED <<dataVars, migVars, gi, connects, closeRaised>>

\* One cursor.execute (with its fetch) of the running operation, on the held
\* connection. It returns, with or without a row for a SELECT; or raises
\* pyodbc.Error (caught at generator.py:70); or the call raises an exception that
\* is not a pyodbc.Error, which leaves execute_random_operation.
ExecuteStatement(r) ==
    /\ pc[r] = "op"
    /\ todo[r] # <<>>
    /\ Head(todo[r]) \notin {"cursor"} \cup OutcomeEvents
    /\ \/ /\ todo' = [todo EXCEPT ![r] = Tail(@)]
          /\ UNCHANGED <<pc, curOp>>
       \/ /\ Head(todo[r]) \in Selects
          /\ \E calls \in NoRowCalls(curOp[r]) :
                /\ todo' = [todo EXCEPT ![r] = calls]
                /\ pc' = [pc EXCEPT ![r] = IF calls = <<>> THEN "sleep" ELSE "op"]
                /\ curOp' = [curOp EXCEPT ![r] = IF calls = <<>> THEN "" ELSE @]
       \/ /\ pc' = [pc EXCEPT ![r] = "caught"]
          /\ UNCHANGED <<todo, curOp>>
       \/ /\ pc' = [pc EXCEPT ![r] = "fatal"]
          /\ UNCHANGED <<todo, curOp>>
    /\ logged' = [logged EXCEPT ![r] = <<>>]
    /\ UNCHANGED <<dataVars, migVars, gi, conn, connects, closeRaised>>

\* The log.info closing an operation body; execute_random_operation returns.
OperationDone(r) ==
    /\ pc[r] = "op"
    /\ todo[r] # <<>>
    /\ Head(todo[r]) \in OutcomeEvents
    /\ logged' = [logged EXCEPT ![r] = <<Event(Head(todo[r]), GenDb(r), "")>>]
    /\ todo' = [todo EXCEPT ![r] = <<>>]
    /\ curOp' = [curOp EXCEPT ![r] = ""]
    /\ pc' = [pc EXCEPT ![r] = "sleep"]
    /\ UNCHANGED <<dataVars, migVars, gi, conn, connects, closeRaised>>

\* Mutant: _connection is cleared only when close() returned.
Reconnect_KeepOnCloseError(handle, closeOk) == IF closeOk THEN 0 ELSE handle

\* generator.py:37-44, reconnect: close the held handle, swallowing what close()
\* raises, and drop it. The result is the new value of _connection.
Reconnect(handle, closeOk) == 0

\* Mutant: the except clause logs the failure without the operation's name and
\* without reconnecting.
OperationFailed_LogOnly(r) ==
    /\ pc[r] = "caught"
    /\ logged' = [logged EXCEPT ![r] = <<Event("operation_failed", GenDb(r), "")>>]
    /\ todo' = [todo EXCEPT ![r] = <<>>]
    /\ curOp' = [curOp EXCEPT ![r] = ""]
    /\ pc' = [pc EXCEPT ![r] = "sleep"]
    /\ UNCHANGED <<dataVars, migVars, gi, conn, connects, closeRaised>>

\* Mutant: the except clause logs, reconnects and re-raises.
OperationFailed_Reraise(r) ==
    /\ pc[r] = "caught"
    /\ logged' = [logged EXCEPT ![r] =
            <<Event("operation_failed", GenDb(r), curOp[r])>>]
    /\ conn' = [conn EXCEPT ![r][GenDb(r)] = 0]
    /\ pc' = [pc EXCEPT ![r] = "fatal"]
    /\ UNCHANGED <<dataVars, migVars, gi, connects, curOp, todo, closeRaised>>

\* Mutant: the except clause logs, reconnects and invokes the operation again.
OperationFailed_Retry(r) ==
    /\ pc[r] = "caught"
    /\ logged' = [logged EXCEPT ![r] =
            <<Event("operation_failed", GenDb(r), curOp[r])>>]
    /\ conn' = [conn EXCEPT ![r][GenDb(r)] = 0]
    /\ \E calls \in OperationCalls(curOp[r]) : todo' = [todo EXCEPT ![r] = calls]
    /\ pc' = [pc EXCEPT ![r] = "op"]
    /\ UNCHANGED <<dataVars, migVars, gi, connects, curOp, closeRaised>>

\* Mutant: the except clause drops the connection of every generator of the
\* process, not only the failing one's.
OperationFailed_ReconnectAll(r) ==
    /\ pc[r] = "caught"
    /\ logged' = [logged EXCEPT ![r] =
            <<Event("operation_failed", GenDb(r), curOp[r])>>]
    /\ conn' = [conn EXCEPT ![r] = [d \in DatabaseSet |-> 0]]
    /\ todo' = [todo EXCEPT ![r] = <<>>]
    /\ curOp' = [curOp EXCEPT ![r] = ""]
    /\ pc' = [pc EXCEPT ![r] = "sleep"]
    /\ UNCHANGED <<dataVars, migVars, gi, connects, closeRaised>>

\* generator.py:70-78: the except clause of execute_random_operation: log
\* operation_failed, reconnect, return to the loop.
OperationFailed(r) ==
    /\ pc[r] = "caught"
    /\ logged' = [logged EXCEPT ![r] =
            <<Event("operation_failed", GenDb(r), curOp[r])>>]
    /\ \E closeOk \in BOOLEAN :
          /\ (conn[r][GenDb(r)] = 0) => closeOk
          /\ conn' = [conn EXCEPT ![r][GenDb(r)] = Reconnect(@, closeOk)]
          /\ closeRaised' = [closeRaised EXCEPT ![r][GenDb(r)] = ~closeOk]
    /\ todo' = [todo EXCEPT ![r] = <<>>]
    /\ curOp' = [curOp EXCEPT ![r] = ""]
    /\ pc' = [pc EXCEPT ![r] = "sleep"]
    /\ UNCHANGED <<dataVars, migVars, gi, connects>>

\* Mutant: after the delay the same generator runs again.
Sleep_SameGenerator(r) ==
    /\ pc[r] = "sleep"
    /\ pc' = [pc EXCEPT ![r] = "loop"]
    /\ logged' = [logged EXCEPT ![r] = <<>>]
    /\ UNCHANGED <<dataVars, migVars, gi, conn, connects, curOp, todo, closeRaised>>

\* main.py:161-163: time.sleep(gen.get_random_delay()), then the next generator
\* of the for loop, the first one again after the last.
Sleep(r) ==
    /\ pc[r] = "sleep"
    /\ gi' = [gi EXCEPT ![r] = IF @ = Len(Databases) THEN 1 ELSE @ + 1]
    /\ pc' = [pc EXCEPT ![r] = "loop"]
    /\ logged' = [logged EXCEPT ![r] = <<>>]
    /\ UNCHANGED <<dataVars, migVars, conn, connects, curOp, todo, closeRaised>>

\* main.py:164-166: KeyboardInterrupt anywhere in the try block: log
\* shutdown_requested, return 0.
Shutdown(r) ==
    /\ pc[r] \in InLoop
    /\ logged' = [logged EXCEPT ![r] = <<Event("shutdown_requested", "", "")>>]
    /\ pc' = [pc EXCEPT ![r] = "exit0"]
    /\ UNCHANGED <<dataVars, migVars, loadVars>>

\* main.py:167-169: any other exception leaving the loop: log fatal_error,
\* return 1.
FatalError(r) ==
    /\ pc[r] = "fatal"
    /\ logged' = [logged EXCEPT ![r] = <<Event("fatal_error", "", "")>>]
    /\ pc' = [pc EXCEPT ![r] = "exit1"]
    /\ UNCHANGED <<dataVars, migVars, loadVars>>

CrudLoop(r) ==
    \/ CreateGenerators(r)
    \/ ExecuteRandomOperation(r)
    \/ Cursor(r)
    \/ ExecuteStatement(r)
    \/ OperationDone(r)
    \/ OperationFailed(r)
    \/ Sleep(r)
    \/ Shutdown(r)
    \/ FatalError(r)

----------------------------------------------------------------------------
(* The operation bodies (generator.py:80-279) on the tables of the first    *)
(* database, for the generator each replica has for it. The calls of an     *)
(* operation are those of todo, one step each, every statement committed    *)
(* when it returns (autocommit, generator.py:34). Connection handling, the  *)
(* except clause, logging and the delay are those of the CRUD loop above    *)
(* and are left out here: a call that raises ends the operation, and the    *)
(* generator's next iteration follows.                                      *)

ctlVars == <<migVars, logged, gi, conn, connects, closeRaised, drawn>>

Statuses == {"Pending", "Processing", "Shipped", "Completed"}

\* generator.py:101: random.choice(["Pending", "Processing", "Shipped"]) in
\* insert_customer_with_order; generator.py:151: "Pending" in
\* insert_order_for_existing. The body that runs is told by its closing event.
NewOrderStatuses(calls) ==
    IF calls[Len(calls)] = "inserted_customer_with_order"
    THEN {"Pending", "Processing", "Shipped"}
    ELSE {"Pending"}

\* Mutant: Pending orders are advanced straight to Shipped.
StatusProgression_Skip(current_status) ==
    CASE current_status = "Pending" -> "Shipped"
      [] current_status = "Processing" -> "Shipped"
      [] current_status = "Shipped" -> "Completed"
      [] OTHER -> "Completed"

\* generator.py:204-209: status_progression.get(current_status, "Completed").
StatusProgression(current_status) ==
    CASE current_status = "Pending" -> "Processing"
      [] current_status = "Processing" -> "Shipped"
      [] current_status = "Shipped" -> "Completed"
      [] OTHER -> "Completed"

\* generator.py:189-196: WHERE Status != 'Completed'.
AdvanceableOrders == {o \in orders : o.status # "Completed"}

\* generator.py:257-265: items joined to their order WHERE o.Status IN
\* ('Pending', 'Processing').
CancelableItems ==
    {i \in items :
        \E o \in orders : o.id = i.order /\ o.status \in {"Pending", "Processing"}}

\* The operation body returns to execute_random_operation, which returns to
\* the loop.
Return(r) ==
    /\ pc' = [pc EXCEPT ![r] = "loop"]
    /\ curOp' = [curOp EXCEPT ![r] = ""]
    /\ todo' = [todo EXCEPT ![r] = <<>>]
    /\ row' = [row EXCEPT ![r] = NoRow]

\* The next call of the body follows.
Continue(r) ==
    /\ todo' = [todo EXCEPT ![r] = Tail(@)]
    /\ UNCHANGED <<pc, curOp>>

\* `if not row: return`, or for insert_order_for_existing
\* `return self.insert_customer_with_order()`.
NoRowFound(r) ==
    \E calls \in NoRowCalls(curOp[r]) :
        IF calls = <<>>
        THEN Return(r)
        ELSE /\ todo' = [todo EXCEPT ![r] = calls]
             /\ UNCHANGED <<pc, curOp, row>>

\* generator.py:82, 138, 187, 227, 254: cursor = self.connection.cursor().
TakeCursor(r) ==
    /\ pc[r] = "op"
    /\ Head(todo[r]) = "cursor"
    /\ Continue(r)
    /\ UNCHANGED <<ctlVars, customers, orders, items, identity, row>>

\* generator.py:89-97: INSERT INTO dbo.Customers ... OUTPUT INSERTED.CustomerId.
InsertCustomer(r) ==
    /\ pc[r] = "op"
    /\ Head(todo[r]) = "insert_customer"
    /\ identity.Customers < MaxCustomers
    /\ LET id == identity.Customers + 1
       IN  /\ customers' = customers \cup {id}
           /\ identity' = [identity EXCEPT !.Customers = id]
           /\ row' = [row EXCEPT ![r].customer_id = id]
    /\ Continue(r)
    /\ UNCHANGED <<ctlVars, orders, items>>

\* generator.py:141-147 and 229-234: SELECT TOP 1 CustomerId FROM dbo.Customers
\* ORDER BY NEWID(), and the test of the row.
SelectCustomer(r) ==
    /\ pc[r] = "op"
    /\ Head(todo[r]) = "select_customer"
    /\ IF customers = {}
       THEN NoRowFound(r)
       ELSE /\ \E c \in customers : row' = [row EXCEPT ![r].customer_id = c]
            /\ Continue(r)
    /\ UNCHANGED <<ctlVars, customers, orders, items, identity>>

\* generator.py:100-111 and 150-161: INSERT INTO dbo.Orders (CustomerId,
\* Status, ...) OUTPUT INSERTED.OrderId, for the customer the body holds.
InsertOrder(r) ==
    /\ pc[r] = "op"
    /\ Head(todo[r]) = "insert_order"
    /\ identity.Orders < MaxOrders
    /\ LET id == identity.Orders + 1
       IN  /\ \E status \in NewOrderStatuses(todo[r]) :
                 orders' = orders \cup
                     {[id |-> id, customer |-> row[r].customer_id, status |-> status]}
           /\ identity' = [identity EXCEPT !.Orders = id]
           /\ row' = [row EXCEPT ![r].order_id = id]
    /\ Continue(r)
    /\ UNCHANGED <<ctlVars, customers, items>>

\* generator.py:114-126 and 164-176: one INSERT INTO dbo.OrderItems of the loop
\* over num_items, for the order the body holds.
InsertItem(r) ==
    /\ pc[r] = "op"
    /\ Head(todo[r]) = "insert_item"
    /\ identity.OrderItems < MaxItems
    /\ LET id == identity.OrderItems + 1
       IN  /\ items' = items \cup {[id |-> id, order |-> row[r].order_id]}
           /\ identity' = [identity EXCEPT !.OrderItems = id]
    /\ Continue(r)
    /\ UNCHANGED <<ctlVars, customers, orders, row>>

\* Mutant: any order is selected, Completed ones too.
SelectOrder_Any(r) ==
    /\ pc[r] = "op"
    /\ Head(todo[r]) = "select_order"
    /\ IF orders = {}
       THEN NoRowFound(r)
       ELSE /\ \E o \in orders :
                 row' = [row EXCEPT ![r].order_id = o.id, ![r].status = o.status]
            /\ Continue(r)
    /\ UNCHANGED <<ctlVars, customers, orders, items, identity>>

\* generator.py:189-200: SELECT TOP 1 OrderId, Status of an order that is not
\* Completed, and the test of the row.
SelectOrder(r) ==
    /\ pc[r] = "op"
    /\ Head(todo[r]) = "select_order"
    /\ IF AdvanceableOrders = {}
       THEN NoRowFound(r)
       ELSE /\ \E o \in AdvanceableOrders :
                 row' = [row EXCEPT ![r].order_id = o.id, ![r].status = o.status]
            /\ Continue(r)
    /\ UNCHANGED <<ctlVars, customers, orders, items, identity>>

\* generator.py:203-214: UPDATE dbo.Orders SET Status = new_status WHERE
\* OrderId = order_id, new_status computed from the status that was read.
UpdateOrder(r) ==
    /\ pc[r] = "op"
    /\ Head(todo[r]) = "update_order"
    /\ orders' = {IF o.id = row[r].order_id
                  THEN [o EXCEPT !.status = StatusProgression(row[r].status)]
                  ELSE o : o \in orders}
    /\ Continue(r)
    /\ UNCHANGED <<ctlVars, customers, items, identity, row>>

\* generator.py:235-243: UPDATE dbo.Customers SET Email, ModifiedAt WHERE
\* CustomerId = ?. The two columns are not part of the modelled rows.
UpdateCustomer(r) ==
    /\ pc[r] = "op"
    /\ Head(todo[r]) = "update_customer"
    /\ row[r].customer_id \in customers
    /\ Continue(r)
    /\ UNCHANGED <<ctlVars, customers, orders, items, identity, row>>

\* generator.py:257-270: SELECT TOP 1 oi.OrderItemId, oi.OrderId of an item
\* whose order is Pending or Processing, and the test of the row.
SelectItem(r) ==
    /\ pc[r] = "op"
    /\ Head(todo[r]) = "select_item"
    /\ IF CancelableItems = {}
       THEN NoRowFound(r)
       ELSE /\ \E i \in CancelableItems :
                 row' = [row EXCEPT ![r].item_id = i.id, ![r].order_id = i.order]
            /\ Continue(r)
    /\ UNCHANGED <<ctlVars, customers, orders, items, identity>>

\* Mutant: the order of the selected item is deleted, not the item.
DeleteItem_DeletesOrder(r) ==
    /\ pc[r] = "op"
    /\ Head(todo[r]) = "delete_item"
    /\ orders' = {o \in orders : o.id # row[r].order_id}
    /\ Continue(r)
    /\ UNCHANGED <<ctlVars, customers, items, identity, row>>

\* generator.py:272: DELETE FROM dbo.OrderItems WHERE OrderItemId = item_id.
DeleteItem(r) ==
    /\ pc[r] = "op"
    /\ Head(todo[r]) = "delete_item"
    /\ items' = {i \in items : i.id # row[r].item_id}
    /\ Continue(r)
    /\ UNCHANGED <<ctlVars, customers, orders, identity, row>>

\* The log.info closing an operation body (generator.py:128-134, 178-183,
\* 216-223, 245-250, 274-279); the body returns.
LogOutcome(r) ==
    /\ pc[r] = "op"
    /\ Head(todo[r]) \in OutcomeEvents
    /\ Return(r)
    /\ UNCHANGED <<ctlVars, customers, orders, items, identity>>

\* A call of the body raises pyodbc.Error: it has no effect on the tables, what
\* the statements before it committed stays, and the operation ends
\* (generator.py:70-77).
CallRaises(r) ==
    /\ pc[r] = "op"
    /\ Head(todo[r]) \notin OutcomeEvents
    /\ Return(r)
    /\ UNCHANGED <<ctlVars, customers, orders, items, identity>>

OperationOnTables(r) ==
    \/ ExecuteRandomOperation(r)
    \/ TakeCursor(r)
    \/ InsertCustomer(r)
    \/ SelectCustomer(r)
    \/ InsertOrder(r)
    \/ InsertItem(r)
    \/ SelectOrder(r)
    \/ UpdateOrder(r)
    \/ UpdateCustomer(r)
    \/ SelectItem(r)
    \/ DeleteItem(r)
    \/ LogOutcome(r)
    \/ CallRaises(r)

\* generator.py:61-67 alone: the draw and the selection, the operation's body
\* left out.
DrawOperation(r) ==
    /\ pc[r] = "loop"
    /\ \E c \in 1..TotalWeight :
          /\ drawn' = [drawn EXCEPT ![r] = c]
          /\ curOp' = [curOp EXCEPT ![r] = SelectOperation(c)]
    /\ UNCHANGED <<migVars, pc, logged, gi, conn, connects, todo, closeRaised,
                   customers, orders, items, identity, row>>

----------------------------------------------------------------------------
(* Specifications.                                                         *)

\* One process runs main() on databases that earlier runs may have migrated.
Init == InitState(ShippedDepends, {1}, InitialLedgers(ShippedDepends))

Next == \E r \in Replicas : RunMigrations(r) \/ CrudLoop(r)

Spec == Init /\ [][Next]_vars

\* Several replicas start together on the shipped migrations.
InitReplicas == InitState(ShippedDepends, Replicas, {<<>>})

NextMigrations == \E r \in Replicas : RunMigrations(r)

SpecReplicas == InitReplicas /\ [][NextMigrations]_vars

\* One process runs main() on fresh databases and keeps running: every call it
\* makes returns or raises.
InitFresh == InitState(ShippedDepends, {1}, {<<>>})

FairSpec ==
    InitFresh /\ [][Next]_vars
        /\ \A r \in Replicas : WF_vars(RunMigrations(r) \/ CrudLoop(r))

\* Two replicas start together on fresh databases, the runner holding a lock and
\* the one waiting for it; each is scheduled again and again until it
\* terminates.
InitPair == InitState(ShippedDepends, {1, 2}, {<<>>})

FairSpecReplicas ==
    InitPair /\ [][NextMigrations]_vars
        /\ \A r \in Replicas : WF_vars(RunMigrations(r))

\* One process, fresh databases, any __depends__ relation over the migrations.
InitDag ==
    \E dep \in [Migrations -> SUBSET Migrations] : InitState(dep, {1}, {<<>>})

SpecDag == InitDag /\ [][NextMigrations]_vars


\* The replicas of `active` have migrated both databases and are at the head of
\* the first iteration of the CRUD loop (main.py:159); the tables are empty.
InitLoop(active) ==
    /\ depends = ShippedDepends
    /\ ledger = [d \in DatabaseSet |-> Resolve(ShippedDepends).order]
    /\ schema = [d \in DatabaseSet |-> Steps]
    /\ lock = [d \in DatabaseSet |-> 0]
    /\ stepRuns = [d \in DatabaseSet |-> [s \in Steps |-> 0]]
    /\ pc = [r \in Replicas |-> IF r \in active THEN "loop" ELSE "absent"]
    /\ dbi = [r \in Replicas |-> IF r \in active THEN Len(Databases) ELSE 1]
    /\ pending = [r \in Replicas |-> <<>>]
    /\ stepi = [r \in Replicas |-> 1]
    /\ txn = [r \in Replicas |-> {}]
    /\ raisedIn = [r \in Replicas |-> NoRaise]
    /\ migrated = [r \in Replicas |-> IF r \in active THEN DatabaseSet ELSE {}]
    /\ logged = [r \in Replicas |-> <<>>]
    /\ gi = [r \in Replicas |-> 1]
    /\ conn = [r \in Replicas |-> [d \in DatabaseSet |-> 0]]
    /\ connects = [r \in Replicas |-> [d \in DatabaseSet |-> 0]]
    /\ curOp = [r \in Replicas |-> ""]
    /\ todo = [r \in Replicas |-> <<>>]
    /\ closeRaised = [r \in Replicas |-> [d \in DatabaseSet |-> FALSE]]
    /\ customers = {}
    /\ orders = {}
    /\ items = {}
    /\ identity = [t \in Tables |-> 0]
    /\ row = [r \in Replicas |-> NoRow]
    /\ drawn = [r \in Replicas |-> 0]

NextTables == \E r \in Replicas : OperationOnTables(r)

\* One process works on the tables of the first database.
SpecTables == InitLoop({1}) /\ [][NextTables]_vars

\* Two replicas work on the tables of the first database, their statements
\* interleaved.
SpecTablesPair == InitLoop({1, 2}) /\ [][NextTables]_vars

NextDraw == \E r \in Replicas : DrawOperation(r)

\* One process draws operations.
SpecDraw == InitLoop({1}) /\ [][NextDraw]_vars

----------------------------------------------------------------------------
(* Properties.                                                             *)

\* A migration failed on database d in some replica's attempt.
FailedOn(d) ==
    \E r \in Replicas : raisedIn[r].database = d /\ raisedIn[r].migration # ""

NoDuplicates(s) == \A i, j \in 1..Len(s) : s[i] = s[j] => i = j

\* C1. Migration atomicity: in every state, for every database and migration,
\* the migration's forward steps are all visible in the schema iff its ledger
\* entry exists, and no step of a migration without a ledger entry is visible.
\* In particular after a failure at any step of 0001 none of its five steps
\* is applied and it has no ledger entry.
C1_Atomicity ==
    \A d \in DatabaseSet : \A m \in Migrations :
        /\ (StepsOf(m) \subseteq schema[d]) <=> (m \in Range(ledger[d]))
        /\ (StepsOf(m) \cap schema[d] # {}) => (m \in Range(ledger[d]))

\* A runner raised at the third step of 0001 (two steps had executed): the
\* database shows none of them.
C1_Witness ==
    \E r \in Replicas :
        /\ pc[r] = "raised"
        /\ raisedIn[r].migration = "0001_initial_schema"
        /\ raisedIn[r].step = 3
        /\ stepRuns[raisedIn[r].database][<<"0001_initial_schema", 2>>] = 1
        /\ schema[raisedIn[r].database] = {}
        /\ ledger[raisedIn[r].database] = <<>>

LockHeldInside ==
    \A d \in DatabaseSet :
        /\ \A r \in Replicas : lock[d] = r => (pc[r] \in InLock /\ CurDb(r) = d)
        /\ (\A r \in Replicas : ~(pc[r] \in InLock /\ CurDb(r) = d)) => LockFree(d)

\* C3. The lock is released on every exit path of run_migrations: a replica
\* that has left the with-block, normally or by an exception, does not hold the
\* lock, and a replica waiting for the lock of a database eventually acquires it.
C3_LockReleased ==
    /\ []LockHeldInside
    /\ \A r \in Replicas : (pc[r] = "lock") ~> (pc[r] = "to_apply")

\* A replica's apply raised inside the lock, and another replica has since
\* acquired the lock of that database.
C3_Witness ==
    \E r1, r2 \in Replicas :
        /\ r1 # r2
        /\ pc[r1] \in {"except", "raised"}
        /\ raisedIn[r1].migration # ""
        /\ lock[raisedIn[r1].database] = r2

\* C4. A failing migration aborts run_migrations: once a replica's
\* run_migrations has met a failure it only unwinds (leaves the lock, logs,
\* re-raises) and applies nothing more; the failed migration has no ledger
\* entry, the ledger is exactly the resolved order up to the failed migration
\* (the migrations applied before it stay applied), the failed and the later
\* pending migrations are not applied, and no statement has run on the
\* databases after the failing one.
C4_AbortOnFailure ==
    \A r \in Replicas :
        raisedIn[r] # NoRaise =>
            /\ pc[r] \in {"unlock_err", "except", "raised"}
            /\ \A j \in (dbi[r] + 1)..Len(Databases) :
                  \A s \in Steps : stepRuns[Databases[j]][s] = 0
            /\ raisedIn[r].migration # "" =>
                  LET d == raisedIn[r].database
                      m == raisedIn[r].migration
                  IN  /\ m \notin Range(ledger[d])
                      /\ pending[r] # <<>> /\ Head(pending[r]) = m
                      /\ ledger[d] \o pending[r] = Resolve(depends).order
                      /\ schema[d] = UNION {StepsOf(k) : k \in Range(ledger[d])}

\* run_migrations applied 0001 in this run, failed in 0002 and re-raised: 0001
\* stays applied.
C4_Witness ==
    \E r \in Replicas : \E d \in DatabaseSet :
        /\ pc[r] = "raised"
        /\ raisedIn[r] = [database |-> d, migration |-> "0002_row_count_view", step |-> 1]
        /\ stepRuns[d][<<"0001_initial_schema", 1>>] = 1
        /\ ledger[d] = <<"0001_initial_schema">>

\* C5. Idempotence of apply: while a replica applies under the lock, its pending
\* list is exactly the resolved order minus the ledger, in resolved order; and
\* when every replica has returned from run_migrations (one run after or
\* interleaved with the other), each ledger is the resolved order, as after a
\* single run, and every forward step has executed exactly once: the later run
\* executed no statement.
C5_Idempotence ==
    /\ \A r \in Replicas :
          pc[r] \in {"apply", "mark"} =>
              pending[r] = ToApply(depends, Range(ledger[CurDb(r)]))
    /\ (\A r \in Replicas : pc[r] = "generators") =>
          \A d \in DatabaseSet :
              /\ ledger[d] = Resolve(depends).order
              /\ \A s \in Steps : stepRuns[d][s] = 1

\* A replica holds the lock of a fully migrated database with nothing pending,
\* all other replicas having finished.
C5_Witness ==
    \E r \in Replicas :
        /\ pc[r] = "unlock_ok"
        /\ dbi[r] = Len(Databases)
        /\ pending[r] = <<>>
        /\ \A d \in DatabaseSet : \A s \in Steps : stepRuns[d][s] = 1
        /\ \A q \in Replicas \ {r} : pc[q] = "generators"

\* m depends, directly or through other migrations, on the members of Closure.
RECURSIVE Closure(_, _, _)
Closure(dep, S, n) ==
    IF n = 0 THEN S
    ELSE Closure(dep, S \cup UNION {dep[k] : k \in S}, n - 1)

Cyclic(dep) ==
    \E m \in Migrations : m \in Closure(dep, dep[m], Cardinality(Migrations))

\* C6. Dependency order: every ledger entry comes after the entries of all the
\* migrations in its dependency set; for an acyclic relation a completed run has
\* applied every migration; for the shipped relation the order is 0001, 0002,
\* 0003; for a cyclic relation no statement is executed and nothing is applied.
C6_DependencyOrder ==
    \A d \in DatabaseSet :
        /\ \A i \in 1..Len(ledger[d]) :
              depends[ledger[d][i]] \subseteq {ledger[d][j] : j \in 1..(i - 1)}
        /\ (~Cyclic(depends) /\ d \in migrated[1]) => Range(ledger[d]) = Migrations
        /\ (depends = ShippedDepends /\ d \in migrated[1]) =>
              ledger[d] = <<"0001_initial_schema", "0002_row_count_view",
                            "0003_schema_change_log">>
        /\ Cyclic(depends) =>
              /\ ledger[d] = <<>> /\ schema[d] = {}
              /\ \A s \in Steps : stepRuns[d][s] = 0
              /\ \A r \in Replicas : pc[r] \notin {"apply", "mark", "complete", "generators"}

\* 0001 depends on 0003: a completed run applied 0002, 0003, 0001, not the
\* identifier order.
C6_Witness ==
    /\ depends["0001_initial_schema"] = {"0003_schema_change_log"}
    /\ depends["0003_schema_change_log"] = {}
    /\ ledger[Databases[1]] = <<"0002_row_count_view", "0003_schema_change_log",
                                "0001_initial_schema">>

\* The positions of main from the creation of the generators' loop on.
Workload == InLoop \cup {"fatal", "exit0", "exit1"}

OperationNames == {Operations[i][1] : i \in 1..Len(Operations)}

\* C7. The migration phase precedes the workload: a process that is in the CRUD
\* loop (or has left it) has completed run_migrations for every configured
\* database without a failure, and every database is fully migrated; a process
\* whose run_migrations failed is not in the loop and has never connected a
\* generator.
C7_MigrationsFirst ==
    \A r \in Replicas :
        /\ (pc[r] \in Workload \cup {"generators"}) =>
              /\ migrated[r] = DatabaseSet
              /\ raisedIn[r] = NoRaise
              /\ \A d \in DatabaseSet : Range(ledger[d]) = Migrations
        /\ (raisedIn[r] # NoRaise \/ migrated[r] # DatabaseSet) =>
              /\ pc[r] \notin Workload
              /\ curOp[r] = "" /\ todo[r] = <<>>
              /\ \A d \in DatabaseSet : connects[r][d] = 0 /\ conn[r][d] = 0

\* An operation is running on the second database, which this run migrated.
C7_Witness ==
    \E r \in Replicas :
        /\ pc[r] = "op" /\ gi[r] = 2
        /\ Head(todo[r]) = "insert_order"
        /\ stepRuns[Databases[2]][<<"0003_schema_change_log", 2>>] = 1

\* C8. A pyodbc.Error raised inside the selected operation, while connecting
\* included, is caught in execute_random_operation: the step that handles it
\* logs operation_failed with the database and the operation's name, drops the
\* database's connection handle, and returns to the loop at the pacing delay,
\* from where the next iteration starts.
C8_DriverErrorCaught ==
    [][\A r \in Replicas :
         /\ (pc[r] = "caught" /\ pc'[r] \notin {"caught", "exit0"}) =>
               /\ curOp[r] \in OperationNames
               /\ logged'[r] = <<Event("operation_failed", GenDb(r), curOp[r])>>
               /\ conn'[r][GenDb(r)] = 0
               /\ pc'[r] = "sleep"
               /\ gi'[r] = gi[r]
         /\ (pc[r] = "sleep" /\ pc'[r] \notin {"sleep", "exit0"}) =>
               pc'[r] = "loop"
      ]_vars

\* The generator could not connect at all: the failure was logged and the loop
\* is at its pacing delay.
C8_Witness ==
    \E r \in Replicas :
        /\ pc[r] = "sleep"
        /\ logged[r] = <<Event("operation_failed", GenDb(r), "update_customer")>>
        /\ connects[r][GenDb(r)] = 0

\* C9 as stated: once the CRUD loop has started no failure inside an operation
\* ends it; the loop ends only on shutdown.
C9_NoFailureStopsLoop ==
    \A r \in Replicas : pc[r] \notin {"fatal", "exit1"}

\* C9 amended. Driver-level failures never stop the generator: a pyodbc.Error
\* caught in an operation leaves the loop running; the loop ends only on the
\* shutdown signal (exit 0) or on an exception that is not a pyodbc.Error
\* (fatal_error, exit 1); and unless it ends that way, every database's
\* generator executes operations again and again.
C9_DriverFailuresNeverStop ==
    /\ [][\A r \in Replicas :
            /\ pc[r] = "caught" => pc'[r] \in {"caught", "sleep", "exit0"}
            /\ (pc[r] \in InLoop /\ pc'[r] \notin InLoop) =>
                  \/ pc'[r] = "exit0"
                  \/ pc[r] = "op" /\ pc'[r] = "fatal"
         ]_vars
    /\ \A r \in Replicas : \A g \in 1..Len(Databases) :
          (pc[r] = "loop") ~>
              \/ pc[r] = "op" /\ gi[r] = g
              \/ pc[r] \in {"exit0", "exit1"}

\* A driver error has been handled on one database and the loop is executing
\* an operation on the other.
C9_Witness ==
    \E r \in Replicas :
        /\ pc[r] = "op" /\ gi[r] = 2
        /\ connects[r][Databases[1]] = 1 /\ conn[r][Databases[1]] = 0

\* A statement is issued only on a held connection.
StatementsOnConnection ==
    \A r \in Replicas :
        (pc[r] = "op" /\ todo[r] # <<>> /\ Head(todo[r]) # "cursor") =>
            conn[r][GenDb(r)] # 0

\* C10. Connection resilience: the connection property creates a handle only
\* when none is held (logging connecting_to_database) and otherwise keeps the
\* held one; the handler of a driver error leaves _connection None even when
\* close() raised, and that error does not leave the handler; a handle changes
\* in no other way; and statements are issued only on a held connection, so the
\* next operation on that database connects first.
C10_ConnectionResilience ==
    /\ []StatementsOnConnection
    /\ [][\A r \in Replicas : \A d \in DatabaseSet :
            /\ (conn[r][d] = 0 /\ conn'[r][d] # 0) =>
                  /\ pc[r] = "op" /\ Head(todo[r]) = "cursor" /\ d = GenDb(r)
                  /\ conn'[r][d] = connects[r][d] + 1
                  /\ logged'[r] = <<Event("connecting_to_database", d, "")>>
            /\ (conn[r][d] # 0 /\ conn'[r][d] # conn[r][d]) =>
                  /\ pc[r] = "caught" /\ d = GenDb(r)
                  /\ conn'[r][d] = 0
            /\ (pc[r] = "caught" /\ pc'[r] \notin {"caught", "exit0"}) =>
                  /\ conn'[r][GenDb(r)] = 0
                  /\ pc'[r] = "sleep"
         ]_vars

\* After a failure whose close() raised, the loop came back to the database
\* and an operation issues statements on a second, new connection.
C10_Witness ==
    \E r \in Replicas :
        /\ pc[r] = "op" /\ gi[r] = 1
        /\ Head(todo[r]) = "insert_customer"
        /\ conn[r][Databases[1]] = 2
        /\ closeRaised[r][Databases[1]]

\* The generator after generator i in the for loop of main.py:160, the first
\* one after the last.
NextGenerator(i) == IF i = Len(Databases) THEN 1 ELSE i + 1

\* A step in which replica r enters the body of an operation on database d.
StartsOperationOn(r, d) ==
    /\ Next
    /\ pc'[r] = "op"
    /\ todo'[r] # <<>>
    /\ Head(todo'[r]) = "cursor"
    /\ Databases[gi'[r]] = d

C12_OperationCompletes ==
    \A r \in Replicas : pc[r] = "exit0" => todo[r] = <<>>

\* C17. One attempt per iteration: an iteration draws one operation and enters
\* it once; until it returns or fails no other operation is entered; a failed
\* operation is followed by the handler and the delay, never by its body
\* again; after the delay the draw is fresh, every operation being possible
\* whatever ran before; and an operation is in flight only inside an iteration.
C17_OneAttempt ==
    /\ [][\A r \in Replicas :
            /\ (pc[r] = "loop" /\ pc'[r] \notin {"loop", "exit0"}) =>
                  /\ pc'[r] = "op"
                  /\ curOp'[r] \in OperationNames
                  /\ todo'[r] \in OperationCalls(curOp'[r])
            /\ (pc[r] \in {"op", "caught"}) => curOp'[r] \in {curOp[r], ""}
            /\ (pc[r] \in {"op", "caught"} /\ curOp'[r] = "") =>
                  (pc'[r] = "sleep" /\ todo'[r] = <<>>)
            /\ (pc[r] = "caught") => pc'[r] \in {"caught", "sleep", "exit0"}
            /\ (pc[r] = "sleep") => curOp'[r] = ""
         ]_vars
    /\ [](\A r \in Replicas :
            /\ (curOp[r] # "") => pc[r] \in {"op", "caught", "fatal", "exit0", "exit1"}
            /\ (pc[r] \in {"loop", "sleep"}) => (curOp[r] = "" /\ todo[r] = <<>>)
            /\ (pc[r] = "loop") =>
                  \A op \in OperationNames :
                      ENABLED (ExecuteRandomOperation(r) /\ curOp'[r] = op))

\* After an operation failed on the first database and its connection was
\* dropped, a later iteration on that database drew another operation.
C17_Witness ==
    \E r \in Replicas :
        /\ pc[r] = "op" /\ gi[r] = 1
        /\ curOp[r] = "delete_order_item"
        /\ Head(todo[r]) = "cursor"
        /\ conn[r][Databases[1]] = 0
        /\ connects[r][Databases[1]] = 1

SkippingOperations == {"update_order_status", "update_customer", "delete_order_item"}

\* C18. Precondition-miss is a silent skip: when the SELECT of
\* update_order_status, update_customer or delete_order_item finds no row, the
\* operation returns with no further statement issued, nothing is logged (no
\* operation_failed), every connection handle is left as it is, and the loop
\* goes on to the delay of the same generator.
C18_SilentSkip ==
    [][\A r \in Replicas :
          (/\ pc[r] = "op"
           /\ curOp[r] \in SkippingOperations
           /\ Head(todo[r]) \in Selects
           /\ pc'[r] = "sleep") =>
              /\ todo'[r] = <<>>
              /\ logged'[r] = <<>>
              /\ conn' = conn
              /\ connects' = connects
              /\ closeRaised' = closeRaised
              /\ gi' = gi
      ]_vars

\* An operation returned on the held connection having logged nothing: its
\* SELECT found no row.
C18_Witness ==
    \E r \in Replicas :
        /\ pc[r] = "sleep"
        /\ logged[r] = <<>>
        /\ conn[r][GenDb(r)] # 0

\* C20. Per-database isolation of failure handling: the handler of a driver
\* error on one database changes no handle, connection count or close() record
\* of any other database or replica, and the next operation on another database
\* takes its cursor on the handle it holds, without connecting.
C20_FailureIsolation ==
    [][\A r \in Replicas :
          /\ (pc[r] = "caught" /\ pc'[r] = "sleep") =>
                /\ \A d \in DatabaseSet \ {GenDb(r)} :
                      /\ conn'[r][d] = conn[r][d]
                      /\ connects'[r][d] = connects[r][d]
                      /\ closeRaised'[r][d] = closeRaised[r][d]
                /\ \A q \in Replicas \ {r} :
                      /\ conn'[q] = conn[q]
                      /\ connects'[q] = connects[q]
                /\ gi' = gi
          /\ (/\ pc[r] = "op" /\ Head(todo[r]) = "cursor"
              /\ conn[r][GenDb(r)] # 0
              /\ pc'[r] # "exit0") =>
                /\ conn' = conn
                /\ connects' = connects
                /\ logged'[r] = <<>>
      ]_vars

\* The second generator took its cursor without connecting, on a handle it
\* held while the operation before it, on the first database, failed and lost
\* its connection.
C20_Witness ==
    \E r \in Replicas :
        /\ pc[r] = "op" /\ gi[r] = 2
        /\ Head(todo[r]) \in {"insert_customer", "select_customer", "select_order", "select_item"}
        /\ logged[r] = <<>>
        /\ conn[r][Databases[2]] # 0
        /\ conn[r][Databases[1]] = 0
        /\ connects[r][Databases[1]] > 0

\* The order of the statuses along the progression of generator.py:204-208.
StatusOrder == <<"Pending", "Processing", "Shipped", "Completed">>

\* C13. Order status only moves forward: in every step every order whose
\* status changes moves exactly one place along Pending, Processing, Shipped,
\* Completed; a Completed order is changed by no step; and the row
\* update_order_status selects is never a Completed order.
C13_StatusForward ==
    [][/\ \A o \in orders : \A n \in orders' :
             (n.id = o.id /\ n.status # o.status) =>
                 \E k \in 1..(Len(StatusOrder) - 1) :
                     o.status = StatusOrder[k] /\ n.status = StatusOrder[k + 1]
       /\ \A o \in orders : o.status = "Completed" => o \in orders'
       /\ \A r \in Replicas :
             (/\ pc[r] = "op" /\ Head(todo[r]) = "select_order"
              /\ row'[r].order_id # 0) =>
                 \E o \in orders :
                     /\ o.id = row'[r].order_id
                     /\ o.status = row'[r].status
                     /\ o.status # "Completed"
      ]_vars

\* update_order_status read a Shipped order and its UPDATE has made it
\* Completed.
C13_Witness ==
    \E r \in Replicas :
        /\ pc[r] = "op"
        /\ Head(todo[r]) = "updated_order_status"
        /\ row[r].status = "Shipped"
        /\ \E o \in orders : o.id = row[r].order_id /\ o.status = "Completed"

\* C14. Referential integrity: in every state every row of OrderItems refers
\* to a row of Orders and every row of Orders to a row of Customers, whatever
\* operations ran and wherever a driver error ended them.
C14_ReferentialIntegrity ==
    /\ \A i \in items : \E o \in orders : o.id = i.order
    /\ \A o \in orders : o.customer \in customers

\* An operation was ended by a driver error after its customer and its order
\* were committed and before its first item: the order is there, no item was
\* ever inserted, and no operation is running.
C14_Witness ==
    /\ \A r \in Replicas : pc[r] \in {"loop", "absent"}
    /\ orders # {}
    /\ identity.OrderItems = 0

\* C15. Fallback of insert_order_for_existing: when its SELECT runs on a
\* database with zero customers it raises nothing and goes on with the calls of
\* insert_customer_with_order; and when that body has made all its calls there
\* is exactly one customer, exactly one order, owned by that customer, and one
\* to three items, all owned by that order.
C15_Fallback ==
    [][\A r \in Replicas :
          /\ (/\ pc[r] = "op" /\ curOp[r] = "insert_order_for_existing"
              /\ Head(todo[r]) = "select_customer" /\ customers = {}
              /\ SelectCustomer(r)) =>
                 /\ pc'[r] = "op"
                 /\ \E n \in 1..3 :
                       todo'[r] = <<"cursor", "insert_customer", "insert_order">>
                                     \o [k \in 1..n |-> "insert_item"]
                                     \o <<"inserted_customer_with_order">>
          /\ (/\ pc[r] = "op" /\ curOp[r] = "insert_order_for_existing"
              /\ Head(todo[r]) = "inserted_customer_with_order"
              /\ pc'[r] = "loop") =>
                 /\ Cardinality(customers') = 1
                 /\ Cardinality(orders') = 1
                 /\ \A o \in orders' : o.customer \in customers'
                 /\ Cardinality(items') \in 1..3
                 /\ \A i \in items' : \E o \in orders' : o.id = i.order
      ]_vars

\* The fallback has inserted a customer, an order and three items and is about
\* to return.
C15_Witness ==
    \E r \in Replicas :
        /\ pc[r] = "op"
        /\ curOp[r] = "insert_order_for_existing"
        /\ Head(todo[r]) = "inserted_customer_with_order"
        /\ Cardinality(items) = 3

\* The operation the weights of generator.py:52-58 give to a draw, by ranges.
ExpectedOperation(c) ==
    IF c <= 40 THEN "insert_customer_with_order"
    ELSE IF c <= 70 THEN "update_order_status"
    ELSE IF c <= 85 THEN "insert_order_for_existing"
    ELSE IF c <= 95 THEN "update_customer"
    ELSE "delete_order_item"

ExpectedWeight ==
    [op \in OperationNames |->
        CASE op = "insert_customer_with_order" -> 40
          [] op = "update_order_status" -> 30
          [] op = "insert_order_for_existing" -> 15
          [] op = "update_customer" -> 10
          [] op = "delete_order_item" -> 5]

\* C16. Weighted selection: the weights sum to 100; of the draws 1..100 exactly
\* 40 select insert_customer_with_order, 30 update_order_status, 15
\* insert_order_for_existing, 10 update_customer and 5 delete_order_item; and
\* every draw made selects exactly one operation, the one of its range.
C16_WeightedSelection ==
    /\ TotalWeight = 100
    /\ \A op \in OperationNames :
          Cardinality({c \in 1..100 : SelectOperation(c) = op}) = ExpectedWeight[op]
    /\ \A r \in Replicas :
          drawn[r] # 0 =>
              /\ curOp[r] \in OperationNames
              /\ curOp[r] = ExpectedOperation(drawn[r])

\* The last value of the second range was drawn.
C16_Witness ==
    \E r \in Replicas : drawn[r] = 70 /\ curOp[r] = "update_order_status"

\* C19 as stated. delete_order_item never deletes an item whose order is
\* Shipped or Completed at the moment of the DELETE: every item a step removes
\* belongs to an order that is Pending or Processing in the state the step
\* starts from, other replicas' statements interleaved or not.
C19_DeleteOnlyCancelable ==
    [][\A i \in items \ items' :
          \E o \in orders : o.id = i.order /\ o.status \in {"Pending", "Processing"}
      ]_vars

====
